---- MODULE Spec2Model ----
(***************************************************************************)
(* Media-relay core of the SFU: the Peer's engine callbacks and their      *)
(* events (pkg/peer/webrtc.go, message types), the RTP forwarding loop of  *)
(* a published track, and the Subscriber's Subscribe/Unsubscribe.          *)
(***************************************************************************)
EXTENDS Integers, Sequences, FiniteSets, TLC

\* ---------------------------------------------------------------- bounds
NumTracks == 2          \* remote tracks a peer may publish (= publishers)
MaxReads == 2           \* successful remote-track reads, all tracks together
MaxSubOps == 4          \* Subscribe/Unsubscribe calls on the subscriber
MaxE2ESubOps == 2       \* the same, in the end-to-end specification
MaxConnCallbacks == 3   \* connection-state callbacks
NumChannels == 2        \* data channels the engine announces
MaxDcEvents == 2        \* open/message notifications on data channels
MaxSigCalls == 3        \* ICE-candidate and negotiation-needed callbacks
MaxQuietCallbacks == 2  \* ICE-connection, ICE-gathering, signaling-state callbacks
MaxConcOps == 2         \* Subscribe/Unsubscribe calls made by concurrent callers

Tracks == 1..NumTracks
Publishers == Tracks                 \* the Publisher of remote track t is t
Packets == {"p", "q"}                \* RTP payloads (rtpBuf[:index])
Channels == 1..NumChannels
Texts == {"hello", "bye"}
Candidates == {"cand1", "cand2"}     \* non-nil *webrtc.ICECandidate values
NoCandidate == "nil"                 \* the nil candidate: gathering finished
Nil == 0

\* Local (TrackLocalStaticRTP) objects: the relay track made for remote track
\* t by onRtpTrackReceived, and the track made by the n-th Subscribe call.
Relay(t) == t
SubTrack(n) == NumTracks + n
LocalTracks == 1..(NumTracks + MaxSubOps)

VARIABLES
    sink,           \* events delivered with p.sink.Send, in order
    trackPc,        \* per remote track: position of callback / forwarding loop
    rtpBuf,         \* per remote track: bytes of the last successful read
    readLog,        \* per remote track: payloads returned by successful reads
    readRes,        \* per remote track: result of the latest Read
    writeLog,       \* per remote track: every localTrack.Write, bytes and result
    written,        \* per local track: payloads a successful Write delivered
    nReads,         \* successful reads so far (all tracks)
    dataChannel,    \* p.dataChannel (Nil or a channel)
    dcAnnounced,    \* channels passed to onDataChannelReady, in order
    dcClosed,       \* channels on which Close() was called
    dcHandlers,     \* channels with the four handlers registered
    dcEvents,       \* notifications delivered to data-channel handlers so far
    dcLast,         \* the latest notification delivered to a handler
    cbCount,        \* connection-state callbacks so far
    cbState,        \* state passed to the latest connection-state callback
    calls,          \* ICE-candidate / negotiation-needed callbacks the engine
                    \* has invoked, in the order it invoked them, each with
                    \* its argument, its position (pc), the outcome of its
                    \* engine calls and (at) where in the sink its event is
    localDescription, \* the connection's local description (Nil or an offer)
    described,      \* offers SetLocalDescription has accepted so far
    quietCount,     \* ICE-connection / ICE-gathering / signaling-state callbacks
    quietLast,      \* the latest of them: which callback, with which state
    th,             \* per concurrent caller: the call it is in (pc, arguments,
                    \* locals, outcomes of its engine calls)
    mutex,          \* Subscriber.mutex: "free" or the caller holding it
    subCalls,       \* per Subscribe call begun: its publisher, track and sender
    sTrack,         \* Subscriber.Track
    sSender,        \* Subscriber.sender
    sPublisher,     \* Subscriber.publisher
    pcSenders,      \* senders registered on call.PeerConnection
    pcState,        \* call.PeerConnection.ConnectionState()
    subscribers,    \* per publisher: its live subscriber set
    callSubscribers,\* the Call's bookkeeping collection of subscribers
    nSubscribes,    \* Subscribe calls so far (names the track and sender made)
    removeCalls,    \* senders passed to PeerConnection.RemoveTrack, in order
    opLog           \* Subscribe/Unsubscribe calls that returned, in order, each
                    \* with the publisher and sender it worked on, the outcomes
                    \* of its engine calls, and (mark) how many payloads the
                    \* publisher's relay track had delivered when it returned

pubVars == <<trackPc, rtpBuf, readLog, readRes, writeLog, written, nReads>>
dcVars == <<dataChannel, dcAnnounced, dcClosed, dcHandlers, dcEvents, dcLast>>
connVars == <<cbCount, cbState>>
sigVars == <<calls, localDescription, described>>
quietVars == <<quietCount, quietLast>>
concVars == <<th, mutex, subCalls>>
subVars == <<sTrack, sSender, sPublisher, pcSenders, pcState, subscribers,
             callSubscribers, nSubscribes, removeCalls, opLog>>
vars == <<sink, pubVars, dcVars, connVars, subVars, sigVars, quietVars, concVars>>

\* The one subscriber under study.
S == "s"

\* The goroutines that call Subscribe / Unsubscribe on it concurrently.
Callers == {"a", "b"}
Idle == [pc |-> "idle", op |-> "none", publisher |-> Nil, track |-> Nil,
         sender |-> Nil, trackOk |-> FALSE, addOk |-> FALSE,
         sawClosed |-> FALSE, removal |-> "none"]

\* ---------------------------------------------------------------- events
JoinedTheCall == [type |-> "JoinedTheCall"]
CallHangupUserHangup == "user_hangup"
LeftTheCall(reason) == [type |-> "LeftTheCall", Reason |-> reason]
NewTrackPublished(track) == [type |-> "NewTrackPublished", Track |-> track]
PublishedTrackFailed(track) == [type |-> "PublishedTrackFailed", Track |-> track]
DataChannelMessage(text) == [type |-> "DataChannelMessage", Message |-> text]
DataChannelAvailable == [type |-> "DataChannelAvailable"]
NewICECandidate(candidate) == [type |-> "NewICECandidate", Candidate |-> candidate]
ICEGatheringComplete == [type |-> "ICEGatheringComplete"]
RenegotiationRequired(offer) == [type |-> "RenegotiationRequired", Offer |-> offer]

\* p.sink.Send(ev)
Send(ev) == sink' = Append(sink, ev)

Init ==
    /\ sink = <<>>
    /\ trackPc = [t \in Tracks |-> "unpublished"]
    /\ rtpBuf = [t \in Tracks |-> "none"]
    /\ readLog = [t \in Tracks |-> <<>>]
    /\ readRes = [t \in Tracks |-> "none"]
    /\ writeLog = [t \in Tracks |-> <<>>]
    /\ written = [l \in LocalTracks |-> <<>>]
    /\ nReads = 0
    /\ dataChannel = Nil
    /\ dcAnnounced = <<>>
    /\ dcClosed = {}
    /\ dcHandlers = {}
    /\ dcEvents = 0
    /\ dcLast = [kind |-> "none", channel |-> Nil, isString |-> FALSE, data |-> ""]
    /\ cbCount = 0
    /\ cbState = "none"
    /\ calls = <<>>
    /\ localDescription = Nil
    /\ described = {}
    /\ quietCount = 0
    /\ quietLast = [callback |-> "none", state |-> "none"]
    /\ th = [c \in Callers |-> Idle]
    /\ mutex = "free"
    /\ subCalls = <<>>
    /\ sTrack = Nil
    /\ sSender = Nil
    /\ sPublisher = Nil
    /\ pcSenders = {}
    /\ pcState = "connected"
    /\ subscribers = [p \in Publishers |-> {}]
    /\ callSubscribers = {S}
    /\ nSubscribes = 0
    /\ removeCalls = <<>>
    /\ opLog = <<>>

\* ------------------------------------------------- publishing, forwarding

\* A variant of onRtpTrackReceived that starts the forwarding goroutine
\* without announcing the track.
OnRtpTrackReceived_NoAnnounce(t, createOk) ==
    /\ trackPc[t] = "unpublished"
    /\ trackPc' = [trackPc EXCEPT ![t] = IF createOk THEN "reading" ELSE "createFailed"]
    /\ UNCHANGED <<sink, rtpBuf, readLog, readRes, writeLog, written, nReads>>
    /\ UNCHANGED <<dcVars, connVars, subVars, sigVars, quietVars, concVars>>

\* onRtpTrackReceived: createOk is the outcome of NewTrackLocalStaticRTP.
OnRtpTrackReceived(t, createOk) ==
    /\ trackPc[t] = "unpublished"
    /\ IF createOk
         THEN /\ Send(NewTrackPublished(Relay(t)))
              /\ trackPc' = [trackPc EXCEPT ![t] = "reading"]
         ELSE /\ UNCHANGED sink
              /\ trackPc' = [trackPc EXCEPT ![t] = "createFailed"]
    /\ UNCHANGED <<rtpBuf, readLog, readRes, writeLog, written, nReads>>
    /\ UNCHANGED <<dcVars, connVars, subVars, sigVars, quietVars, concVars>>

\* A variant of the read branch that leaves the buffer as it was, so that the
\* write that follows sends the bytes of an earlier read.
ForwardRead_StaleBuffer(t, res, data) ==
    /\ trackPc[t] = "reading"
    /\ readRes' = [readRes EXCEPT ![t] = res]
    /\ IF res = "ok"
         THEN /\ nReads < MaxReads
              /\ nReads' = nReads + 1
              /\ readLog' = [readLog EXCEPT ![t] = Append(@, data)]
              /\ trackPc' = [trackPc EXCEPT ![t] = "writing"]
              /\ UNCHANGED <<sink, rtpBuf>>
         ELSE /\ Send(PublishedTrackFailed(Relay(t)))
              /\ trackPc' = [trackPc EXCEPT ![t] = "terminated"]
              /\ UNCHANGED <<nReads, rtpBuf, readLog>>
    /\ UNCHANGED <<writeLog, written>>
    /\ UNCHANGED <<dcVars, connVars, subVars, sigVars, quietVars, concVars>>

\* One remoteTrack.Read of the forwarding goroutine and the branch on readErr.
\* res is "ok" (data holds the bytes read), "EOF" or "err".
ForwardRead(t, res, data) ==
    /\ trackPc[t] = "reading"
    /\ readRes' = [readRes EXCEPT ![t] = res]
    /\ IF res = "ok"
         THEN /\ nReads < MaxReads
              /\ nReads' = nReads + 1
              /\ rtpBuf' = [rtpBuf EXCEPT ![t] = data]
              /\ readLog' = [readLog EXCEPT ![t] = Append(@, data)]
              /\ trackPc' = [trackPc EXCEPT ![t] = "writing"]
              /\ UNCHANGED sink
         ELSE /\ Send(PublishedTrackFailed(Relay(t)))
              /\ trackPc' = [trackPc EXCEPT ![t] = "terminated"]
              /\ UNCHANGED <<nReads, rtpBuf, readLog>>
    /\ UNCHANGED <<writeLog, written>>
    /\ UNCHANGED <<dcVars, connVars, subVars, sigVars, quietVars, concVars>>

\* A variant of the write branch that returns on a write error without
\* sending the terminal event.
ForwardWrite_SilentExit(t, res) ==
    /\ trackPc[t] = "writing"
    /\ writeLog' = [writeLog EXCEPT ![t] = Append(@, [data |-> rtpBuf[t], res |-> res])]
    /\ written' = IF res = "ok"
                    THEN [written EXCEPT ![Relay(t)] = Append(@, rtpBuf[t])]
                    ELSE written
    /\ trackPc' = [trackPc EXCEPT ![t] = IF res = "err" THEN "terminated" ELSE "reading"]
    /\ UNCHANGED <<sink, rtpBuf, readLog, readRes, nReads>>
    /\ UNCHANGED <<dcVars, connVars, subVars, sigVars, quietVars, concVars>>

\* A variant of the write branch without the errors.Is(err, io.ErrClosedPipe)
\* exemption: every write error ends the loop.
ForwardWrite_ClosedPipeFatal(t, res) ==
    /\ trackPc[t] = "writing"
    /\ writeLog' = [writeLog EXCEPT ![t] = Append(@, [data |-> rtpBuf[t], res |-> res])]
    /\ written' = IF res = "ok"
                    THEN [written EXCEPT ![Relay(t)] = Append(@, rtpBuf[t])]
                    ELSE written
    /\ IF res # "ok"
         THEN /\ Send(PublishedTrackFailed(Relay(t)))
              /\ trackPc' = [trackPc EXCEPT ![t] = "terminated"]
         ELSE /\ UNCHANGED sink
              /\ trackPc' = [trackPc EXCEPT ![t] = "reading"]
    /\ UNCHANGED <<rtpBuf, readLog, readRes, nReads>>
    /\ UNCHANGED <<dcVars, connVars, subVars, sigVars, quietVars, concVars>>

\* localTrack.Write(rtpBuf[:index]) and the branch on its error.
\* res is "ok", "closedPipe" (errors.Is(err, io.ErrClosedPipe)) or "err".
ForwardWrite(t, res) ==
    /\ trackPc[t] = "writing"
    /\ writeLog' = [writeLog EXCEPT ![t] = Append(@, [data |-> rtpBuf[t], res |-> res])]
    /\ written' = IF res = "ok"
                    THEN [written EXCEPT ![Relay(t)] = Append(@, rtpBuf[t])]
                    ELSE written
    /\ IF res = "err"
         THEN /\ Send(PublishedTrackFailed(Relay(t)))
              /\ trackPc' = [trackPc EXCEPT ![t] = "terminated"]
         ELSE /\ UNCHANGED sink
              /\ trackPc' = [trackPc EXCEPT ![t] = "reading"]
    /\ UNCHANGED <<rtpBuf, readLog, readRes, nReads>>
    /\ UNCHANGED <<dcVars, connVars, subVars, sigVars, quietVars, concVars>>

TrackReceived == \E t \in Tracks, ok \in BOOLEAN : OnRtpTrackReceived(t, ok)
Read == \E t \in Tracks, res \in {"ok", "EOF", "err"}, d \in Packets :
            ForwardRead(t, res, d)
Write == \E t \in Tracks, res \in {"ok", "closedPipe", "err"} : ForwardWrite(t, res)

NextPub == TrackReceived \/ Read \/ Write

SpecPub == Init /\ [][NextPub]_vars

\* ------------------------------------------------ connection-state events

PeerConnectionStates ==
    {"new", "connecting", "connected", "disconnected", "failed", "closed"}

\* A variant of onConnectionStateChanged that treats Disconnected as
\* transient and reports only Failed and Closed.
OnConnectionStateChanged_SkipDisconnected(state) ==
    /\ cbCount < MaxConnCallbacks
    /\ cbCount' = cbCount + 1
    /\ cbState' = state
    /\ CASE state \in {"failed", "closed"} ->
               Send(LeftTheCall(CallHangupUserHangup))
         [] state = "connected" -> Send(JoinedTheCall)
         [] OTHER -> UNCHANGED sink
    /\ UNCHANGED <<pubVars, dcVars, subVars, sigVars, quietVars, concVars>>

\* onConnectionStateChanged
OnConnectionStateChanged(state) ==
    /\ cbCount < MaxConnCallbacks
    /\ cbCount' = cbCount + 1
    /\ cbState' = state
    /\ CASE state \in {"failed", "disconnected", "closed"} ->
               Send(LeftTheCall(CallHangupUserHangup))
         [] state = "connected" -> Send(JoinedTheCall)
         [] OTHER -> UNCHANGED sink
    /\ UNCHANGED <<pubVars, dcVars, subVars, sigVars, quietVars, concVars>>

\* ----------------------------------------------------------- data channel

Announced == {dcAnnounced[i] : i \in DOMAIN dcAnnounced}

\* A variant of onDataChannelReady that replaces the bound channel by the
\* new one.
OnDataChannelReady_Rebind(dc) ==
    /\ dc \notin Announced
    /\ dcAnnounced' = Append(dcAnnounced, dc)
    /\ dcClosed' = IF dataChannel # Nil THEN dcClosed \cup {dataChannel} ELSE dcClosed
    /\ dataChannel' = dc
    /\ dcHandlers' = dcHandlers \cup {dc}
    /\ UNCHANGED <<sink, dcEvents, dcLast>>
    /\ UNCHANGED <<pubVars, connVars, subVars, sigVars, quietVars, concVars>>

\* onDataChannelReady, including the registration of the handlers. The whole
\* body runs with p.dataChannelMutex held.
OnDataChannelReady(dc) ==
    /\ dc \notin Announced
    /\ dcAnnounced' = Append(dcAnnounced, dc)
    /\ IF dataChannel # Nil
         THEN /\ dcClosed' = dcClosed \cup {dataChannel}   \* p.dataChannel.Close()
              /\ UNCHANGED <<dataChannel, dcHandlers>>
         ELSE /\ dataChannel' = dc
              /\ dcHandlers' = dcHandlers \cup {dc}
              /\ UNCHANGED dcClosed
    /\ UNCHANGED <<sink, dcEvents, dcLast>>
    /\ UNCHANGED <<pubVars, connVars, subVars, sigVars, quietVars, concVars>>

\* A notification of the given kind reaches the handler registered on c.
Notified(c, kind, isString, data) ==
    /\ c \in dcHandlers
    /\ dcEvents < MaxDcEvents
    /\ dcEvents' = dcEvents + 1
    /\ dcLast' = [kind |-> kind, channel |-> c, isString |-> isString, data |-> data]
    /\ UNCHANGED <<dataChannel, dcAnnounced, dcClosed, dcHandlers>>
    /\ UNCHANGED <<pubVars, connVars, subVars, sigVars, quietVars, concVars>>

\* The engine runs the OnOpen handler registered on channel c.
DcOnOpen(c) ==
    /\ c \notin dcClosed
    /\ Notified(c, "open", FALSE, "")
    /\ Send(DataChannelAvailable)

\* A variant of the OnMessage handler without the msg.IsString check.
DcOnMessage_NoStringCheck(c, isString, data) ==
    /\ c \notin dcClosed
    /\ Notified(c, "message", isString, data)
    /\ Send(DataChannelMessage(data))

\* The engine runs the OnMessage handler registered on channel c.
DcOnMessage(c, isString, data) ==
    /\ c \notin dcClosed
    /\ Notified(c, "message", isString, data)
    /\ IF isString THEN Send(DataChannelMessage(data)) ELSE UNCHANGED sink

\* The engine runs the OnError handler registered on channel c.
DcOnError(c) ==
    /\ c \notin dcClosed
    /\ Notified(c, "error", FALSE, "")
    /\ UNCHANGED sink

\* The engine runs the OnClose handler registered on channel c.
DcOnClose(c) ==
    /\ Notified(c, "close", FALSE, "")
    /\ UNCHANGED sink

ConnectionStateChanged == \E st \in PeerConnectionStates : OnConnectionStateChanged(st)
DataChannelReady == \E c \in Channels : OnDataChannelReady(c)
DataChannelOpen == \E c \in Channels : DcOnOpen(c)
DataChannelMessageReceived ==
    \E c \in Channels, isString \in BOOLEAN, d \in Texts : DcOnMessage(c, isString, d)

DataChannelError == \E c \in Channels : DcOnError(c)
DataChannelClosed == \E c \in Channels : DcOnClose(c)

NextPeer ==
    \/ ConnectionStateChanged
    \/ DataChannelReady
    \/ DataChannelOpen
    \/ DataChannelMessageReceived
    \/ DataChannelError
    \/ DataChannelClosed

SpecPeer == Init /\ [][NextPeer]_vars

\* ------------------------------------- ICE candidates, renegotiation
\* The engine invokes these callbacks from its own goroutines: a callback of
\* one kind may be invoked while a callback of the other kind is still
\* running, so the invocation and the handler's steps are separate steps.

\* A callback of this kind has been invoked and has not returned.
InFlight(kind) == \E i \in DOMAIN calls : calls[i].kind = kind /\ calls[i].pc # "done"

\* The engine invokes onICECandidateGathered(arg) or onNegotiationNeeded().
FireCallback(kind, arg) ==
    /\ Len(calls) < MaxSigCalls
    /\ ~InFlight(kind)
    /\ calls' = Append(calls, [kind |-> kind, arg |-> arg, pc |-> "fired",
                               res |-> "none", at |-> 0])
    /\ UNCHANGED <<sink, localDescription, described>>
    /\ UNCHANGED <<pubVars, dcVars, connVars, subVars, quietVars, concVars>>

\* A variant of onICECandidateGathered without the nil check.
OnICECandidateGathered_NoNilCheck(i) ==
    /\ i \in DOMAIN calls
    /\ calls[i].kind = "ice" /\ calls[i].pc = "fired"
    /\ Send(NewICECandidate(calls[i].arg))
    /\ calls' = [calls EXCEPT ![i].pc = "done", ![i].at = Len(sink) + 1]
    /\ UNCHANGED <<localDescription, described>>
    /\ UNCHANGED <<pubVars, dcVars, connVars, subVars, quietVars, concVars>>

\* onICECandidateGathered, the body of the i-th callback invoked.
OnICECandidateGathered(i) ==
    /\ i \in DOMAIN calls
    /\ calls[i].kind = "ice" /\ calls[i].pc = "fired"
    /\ IF calls[i].arg = NoCandidate
         THEN Send(ICEGatheringComplete)
         ELSE Send(NewICECandidate(calls[i].arg))
    /\ calls' = [calls EXCEPT ![i].pc = "done", ![i].at = Len(sink) + 1]
    /\ UNCHANGED <<localDescription, described>>
    /\ UNCHANGED <<pubVars, dcVars, connVars, subVars, quietVars, concVars>>

\* A variant of onNegotiationNeeded that logs a SetLocalDescription failure
\* and goes on to the Send.
OnNegotiationNeeded_NoReturn(i, offerOk, setOk) ==
    /\ i \in DOMAIN calls
    /\ calls[i].kind = "negotiation" /\ calls[i].pc = "fired"
    /\ setOk => offerOk
    /\ IF setOk
         THEN /\ localDescription' = i
              /\ described' = described \cup {i}
         ELSE UNCHANGED <<localDescription, described>>
    /\ calls' = [calls EXCEPT
                   ![i].pc = IF offerOk THEN "send" ELSE "done",
                   ![i].res = IF setOk THEN "ok"
                              ELSE IF offerOk THEN "setFailed" ELSE "offerFailed"]
    /\ UNCHANGED sink
    /\ UNCHANGED <<pubVars, dcVars, connVars, subVars, quietVars, concVars>>

\* onNegotiationNeeded up to the Send, the body of the i-th callback
\* invoked: CreateOffer (outcome offerOk; the offer of the i-th callback is
\* i) and SetLocalDescription(offer) (outcome setOk).
OnNegotiationNeeded(i, offerOk, setOk) ==
    /\ i \in DOMAIN calls
    /\ calls[i].kind = "negotiation" /\ calls[i].pc = "fired"
    /\ setOk => offerOk
    /\ IF setOk
         THEN /\ localDescription' = i
              /\ described' = described \cup {i}
         ELSE UNCHANGED <<localDescription, described>>
    /\ calls' = [calls EXCEPT
                   ![i].pc = IF setOk THEN "send" ELSE "done",
                   ![i].res = IF setOk THEN "ok"
                              ELSE IF offerOk THEN "setFailed" ELSE "offerFailed"]
    /\ UNCHANGED sink
    /\ UNCHANGED <<pubVars, dcVars, connVars, subVars, quietVars, concVars>>

\* onNegotiationNeeded: p.sink.Send(RenegotiationRequired{Offer: &offer}).
SendRenegotiationRequired(i) ==
    /\ i \in DOMAIN calls
    /\ calls[i].kind = "negotiation" /\ calls[i].pc = "send"
    /\ Send(RenegotiationRequired(i))
    /\ calls' = [calls EXCEPT ![i].pc = "done", ![i].at = Len(sink) + 1]
    /\ UNCHANGED <<localDescription, described>>
    /\ UNCHANGED <<pubVars, dcVars, connVars, subVars, quietVars, concVars>>

EngineFires ==
    \/ \E c \in Candidates \cup {NoCandidate} : FireCallback("ice", c)
    \/ FireCallback("negotiation", "none")
ICECandidateGathered == \E i \in 1..MaxSigCalls : OnICECandidateGathered(i)
NegotiationNeeded ==
    \E i \in 1..MaxSigCalls, offerOk \in BOOLEAN, setOk \in BOOLEAN :
        OnNegotiationNeeded(i, offerOk, setOk)
RenegotiationSent == \E i \in 1..MaxSigCalls : SendRenegotiationRequired(i)

NextSignal ==
    \/ EngineFires
    \/ ICECandidateGathered
    \/ NegotiationNeeded
    \/ RenegotiationSent

SpecSignal == Init /\ [][NextSignal]_vars

\* ---------------------- ICE-connection, ICE-gathering, signaling state

ICEConnectionStates ==
    {"new", "checking", "connected", "completed", "disconnected", "failed", "closed"}
ICEGathererStates == {"new", "gathering", "complete", "closed"}
SignalingStates ==
    {"stable", "have-local-offer", "have-remote-offer", "have-local-pranswer",
     "have-remote-pranswer", "closed"}

\* One of the three callbacks ran: it logs the state and does nothing else.
LoggedOnly(callback, state) ==
    /\ quietCount < MaxQuietCallbacks
    /\ quietCount' = quietCount + 1
    /\ quietLast' = [callback |-> callback, state |-> state]
    /\ UNCHANGED <<pubVars, dcVars, connVars, subVars, sigVars, concVars>>

\* A variant of onICEConnectionStateChanged with the two commented-out
\* notifications in place.
OnICEConnectionStateChanged_Wired(state) ==
    /\ LoggedOnly("iceConnection", state)
    /\ CASE state \in {"failed", "disconnected"} ->
               Send(LeftTheCall(CallHangupUserHangup))
         [] state \in {"completed", "connected"} -> Send(JoinedTheCall)
         [] OTHER -> UNCHANGED sink

\* onICEConnectionStateChanged: both cases of the switch are empty.
OnICEConnectionStateChanged(state) ==
    /\ LoggedOnly("iceConnection", state)
    /\ UNCHANGED sink

\* onICEGatheringStateChanged
OnICEGatheringStateChanged(state) ==
    /\ LoggedOnly("iceGathering", state)
    /\ UNCHANGED sink

\* onSignalingStateChanged
OnSignalingStateChanged(state) ==
    /\ LoggedOnly("signaling", state)
    /\ UNCHANGED sink

ICEConnectionStateChanged ==
    \E st \in ICEConnectionStates : OnICEConnectionStateChanged(st)
ICEGatheringStateChanged ==
    \E st \in ICEGathererStates : OnICEGatheringStateChanged(st)
SignalingStateChanged == \E st \in SignalingStates : OnSignalingStateChanged(st)

\* The state callbacks of a Peer: the connection-state callback, which sends
\* events, beside the three that only log.
NextQuiet ==
    \/ ConnectionStateChanged
    \/ ICEConnectionStateChanged
    \/ ICEGatheringStateChanged
    \/ SignalingStateChanged

SpecQuiet == Init /\ [][NextQuiet]_vars

\* ------------------------------------------------------------ subscription

\* PeerConnection.AddTrack(track): the sender it returns is registered on
\* the connection; on failure nothing is registered.
AddTrack(senders, sender, addOk) ==
    IF addOk THEN senders \cup {sender} ELSE senders

\* PeerConnection.RemoveTrack(sender): a registered sender is removed; for
\* any other argument the call returns an error and changes nothing.
RemoveTrack(senders, sender) == senders \ {sender}

\* Publisher.AddSubscriber(s)
AddSubscriber(subs, publisher, s) == [subs EXCEPT ![publisher] = @ \cup {s}]

\* Call.RemoveSubscriber(s)
RemoveSubscriber(coll, s) == coll \ {s}

\* Subscriber.Subscribe(publisher). trackOk and addOk are the outcomes of
\* NewTrackLocalStaticRTP and of PeerConnection.AddTrack; AddTrack cannot
\* succeed on a nil track or on a closed connection.
Subscribe(publisher, trackOk, addOk) ==
    /\ Len(opLog) < MaxSubOps
    /\ addOk => (trackOk /\ pcState # "closed")
    /\ LET n == nSubscribes + 1
           track == IF trackOk THEN SubTrack(n) ELSE Nil
           sender == IF addOk THEN n ELSE Nil
       IN /\ nSubscribes' = n
          /\ pcSenders' = AddTrack(pcSenders, sender, addOk)
          /\ sTrack' = track
          /\ sSender' = sender
          /\ sPublisher' = publisher
          /\ subscribers' = AddSubscriber(subscribers, publisher, S)
          /\ opLog' = Append(opLog, [op |-> "Subscribe", publisher |-> publisher,
                                     sender |-> sender, trackOk |-> trackOk,
                                     addOk |-> addOk,
                                     mark |-> Len(written[Relay(publisher)])])
    /\ UNCHANGED <<pcState, callSubscribers, removeCalls>>
    /\ UNCHANGED <<sink, pubVars, dcVars, connVars, sigVars, quietVars, concVars>>

\* Subscriber.Unsubscribe()
Unsubscribe ==
    /\ Len(opLog) < MaxSubOps
    /\ IF pcState # "closed"
         THEN /\ removeCalls' = Append(removeCalls, sSender)
              /\ pcSenders' = RemoveTrack(pcSenders, sSender)
         ELSE UNCHANGED <<removeCalls, pcSenders>>
    /\ callSubscribers' = RemoveSubscriber(callSubscribers, S)
    /\ opLog' = Append(opLog, [op |-> "Unsubscribe", publisher |-> sPublisher,
                               sender |-> sSender, trackOk |-> TRUE,
                               addOk |-> TRUE, mark |-> 0])
    /\ UNCHANGED <<sTrack, sSender, sPublisher, pcState, subscribers, nSubscribes>>
    /\ UNCHANGED <<sink, pubVars, dcVars, connVars, sigVars, quietVars, concVars>>

\* The home connection reaches the Closed state; the engine stops its senders.
ClosePeerConnection ==
    /\ pcState # "closed"
    /\ pcState' = "closed"
    /\ pcSenders' = {}
    /\ UNCHANGED <<sTrack, sSender, sPublisher, subscribers, callSubscribers,
                   nSubscribes, removeCalls, opLog>>
    /\ UNCHANGED <<sink, pubVars, dcVars, connVars, sigVars, quietVars, concVars>>

SubscribeCall ==
    \E p \in Publishers, trackOk \in BOOLEAN, addOk \in BOOLEAN :
        Subscribe(p, trackOk, addOk)

NextSub == SubscribeCall \/ Unsubscribe \/ ClosePeerConnection

SpecSub == Init /\ [][NextSub]_vars

\* Publishing on one peer and subscribing on another, end to end.
E2ESubscribe == Len(opLog) < MaxE2ESubOps /\ SubscribeCall
E2EUnsubscribe == Len(opLog) < MaxE2ESubOps /\ Unsubscribe

NextE2E == NextPub \/ E2ESubscribe \/ E2EUnsubscribe \/ ClosePeerConnection

SpecE2E == Init /\ [][NextE2E]_vars

\* Subscribe and Unsubscribe statement by statement, called by concurrent
\* goroutines on the one subscriber.

\* This caller's state becomes r, the other callers keep theirs.
Goto(c, r) == th' = [th EXCEPT ![c] = r]
At(c, pc) == th[c].pc = pc

\* The calls begun so far.
ConcOps ==
    Len(subCalls)
    + Cardinality({i \in 1..Len(opLog) : opLog[i].op = "Unsubscribe"})
    + Cardinality({c \in Callers : th[c].op = "Unsubscribe"})

\* Subscribe up to its AddTrack: the track is created and registered on the
\* home connection; neither failure returns.
Subscribe_AddTrack(c, publisher, trackOk, addOk) ==
    /\ At(c, "idle")
    /\ ConcOps < MaxConcOps
    /\ addOk => (trackOk /\ pcState # "closed")
    /\ LET n == nSubscribes + 1
           track == IF trackOk THEN SubTrack(n) ELSE Nil
           sender == IF addOk THEN n ELSE Nil
       IN /\ nSubscribes' = n
          /\ pcSenders' = AddTrack(pcSenders, sender, addOk)
          /\ subCalls' = Append(subCalls, [publisher |-> publisher,
                                           track |-> track, sender |-> sender])
          /\ Goto(c, [Idle EXCEPT !.pc = "lock", !.op = "Subscribe",
                                  !.publisher = publisher, !.track = track,
                                  !.sender = sender, !.trackOk = trackOk,
                                  !.addOk = addOk])
    /\ UNCHANGED <<sTrack, sSender, sPublisher, pcState, subscribers,
                   callSubscribers, removeCalls, opLog, mutex>>
    /\ UNCHANGED <<sink, pubVars, dcVars, connVars, sigVars, quietVars>>

\* A step of a call that touches nothing but the caller, the mutex and the
\* fields of the subscriber.
SubscriberStep ==
    /\ UNCHANGED <<pcSenders, pcState, subscribers, callSubscribers, nSubscribes,
                   removeCalls, opLog, subCalls>>
    /\ UNCHANGED <<sink, pubVars, dcVars, connVars, sigVars, quietVars>>

\* A variant of Subscribe that goes on to its assignments without taking
\* the mutex.
Subscribe_Lock_NotTaken(c) ==
    /\ At(c, "lock")
    /\ Goto(c, [th[c] EXCEPT !.pc = "setTrack"])
    /\ UNCHANGED <<mutex, sTrack, sSender, sPublisher>>
    /\ SubscriberStep

\* s.mutex.Lock()
Subscribe_Lock(c) ==
    /\ At(c, "lock")
    /\ mutex = "free"
    /\ mutex' = c
    /\ Goto(c, [th[c] EXCEPT !.pc = "setTrack"])
    /\ UNCHANGED <<sTrack, sSender, sPublisher>>
    /\ SubscriberStep

\* s.Track = track
Subscribe_SetTrack(c) ==
    /\ At(c, "setTrack")
    /\ sTrack' = th[c].track
    /\ Goto(c, [th[c] EXCEPT !.pc = "setSender"])
    /\ UNCHANGED <<mutex, sSender, sPublisher>>
    /\ SubscriberStep

\* s.sender = sender
Subscribe_SetSender(c) ==
    /\ At(c, "setSender")
    /\ sSender' = th[c].sender
    /\ Goto(c, [th[c] EXCEPT !.pc = "setPublisher"])
    /\ UNCHANGED <<mutex, sTrack, sPublisher>>
    /\ SubscriberStep

\* s.publisher = publisher
Subscribe_SetPublisher(c) ==
    /\ At(c, "setPublisher")
    /\ sPublisher' = th[c].publisher
    /\ Goto(c, [th[c] EXCEPT !.pc = "unlock"])
    /\ UNCHANGED <<mutex, sTrack, sSender>>
    /\ SubscriberStep

\* s.mutex.Unlock()
Subscribe_Unlock(c) ==
    /\ At(c, "unlock")
    /\ mutex' = "free"
    /\ Goto(c, [th[c] EXCEPT !.pc = "addSubscriber"])
    /\ UNCHANGED <<sTrack, sSender, sPublisher>>
    /\ SubscriberStep

\* publisher.AddSubscriber(s), and Subscribe returns.
Subscribe_AddSubscriber(c) ==
    /\ At(c, "addSubscriber")
    /\ subscribers' = AddSubscriber(subscribers, th[c].publisher, S)
    /\ opLog' = Append(opLog, [op |-> "Subscribe", publisher |-> th[c].publisher,
                               sender |-> th[c].sender, trackOk |-> th[c].trackOk,
                               addOk |-> th[c].addOk, mark |-> 0,
                               sawClosed |-> FALSE, removal |-> "none"])
    /\ Goto(c, Idle)
    /\ UNCHANGED <<sTrack, sSender, sPublisher, pcSenders, pcState,
                   callSubscribers, nSubscribes, removeCalls, mutex, subCalls>>
    /\ UNCHANGED <<sink, pubVars, dcVars, connVars, sigVars, quietVars>>

\* Unsubscribe: the test of s.peerConnection.ConnectionState().
Unsubscribe_CheckState(c) ==
    /\ At(c, "idle")
    /\ ConcOps < MaxConcOps
    /\ Goto(c, [Idle EXCEPT !.op = "Unsubscribe",
                            !.sawClosed = (pcState = "closed"),
                            !.pc = IF pcState = "closed" THEN "removeSubscriber"
                                                         ELSE "removeTrack"])
    /\ UNCHANGED <<mutex, sTrack, sSender, sPublisher>>
    /\ SubscriberStep

\* A variant of Unsubscribe that returns when RemoveTrack fails.
Unsubscribe_RemoveTrack_ReturnOnError(c) ==
    /\ At(c, "removeTrack")
    /\ removeCalls' = Append(removeCalls, sSender)
    /\ LET ok == pcState # "closed" /\ sSender \in pcSenders
       IN /\ pcSenders' = IF ok THEN RemoveTrack(pcSenders, sSender) ELSE pcSenders
          /\ IF ok
               THEN /\ Goto(c, [th[c] EXCEPT !.pc = "removeSubscriber",
                                             !.sender = sSender, !.removal = "ok"])
                    /\ UNCHANGED opLog
               ELSE /\ Goto(c, Idle)
                    /\ opLog' = Append(opLog,
                          [op |-> "Unsubscribe", publisher |-> sPublisher,
                           sender |-> sSender, trackOk |-> TRUE, addOk |-> TRUE,
                           mark |-> 0, sawClosed |-> FALSE, removal |-> "err"])
    /\ UNCHANGED <<sTrack, sSender, sPublisher, pcState, subscribers,
                   callSubscribers, nSubscribes, mutex, subCalls>>
    /\ UNCHANGED <<sink, pubVars, dcVars, connVars, sigVars, quietVars>>

\* s.peerConnection.RemoveTrack(s.sender): it fails, changing nothing, on a
\* closed connection and for a sender the connection does not hold; the
\* error is logged.
Unsubscribe_RemoveTrack(c) ==
    /\ At(c, "removeTrack")
    /\ removeCalls' = Append(removeCalls, sSender)
    /\ LET ok == pcState # "closed" /\ sSender \in pcSenders
       IN /\ pcSenders' = IF ok THEN RemoveTrack(pcSenders, sSender) ELSE pcSenders
          /\ Goto(c, [th[c] EXCEPT !.pc = "removeSubscriber", !.sender = sSender,
                                   !.removal = IF ok THEN "ok" ELSE "err"])
    /\ UNCHANGED <<sTrack, sSender, sPublisher, pcState, subscribers,
                   callSubscribers, nSubscribes, opLog, mutex, subCalls>>
    /\ UNCHANGED <<sink, pubVars, dcVars, connVars, sigVars, quietVars>>

\* s.call.RemoveSubscriber(s), and Unsubscribe returns.
Unsubscribe_RemoveSubscriber(c) ==
    /\ At(c, "removeSubscriber")
    /\ callSubscribers' = RemoveSubscriber(callSubscribers, S)
    /\ opLog' = Append(opLog, [op |-> "Unsubscribe", publisher |-> sPublisher,
                               sender |-> th[c].sender, trackOk |-> TRUE,
                               addOk |-> TRUE, mark |-> 0,
                               sawClosed |-> th[c].sawClosed,
                               removal |-> th[c].removal])
    /\ Goto(c, Idle)
    /\ UNCHANGED <<sTrack, sSender, sPublisher, pcSenders, pcState, subscribers,
                   nSubscribes, removeCalls, mutex, subCalls>>
    /\ UNCHANGED <<sink, pubVars, dcVars, connVars, sigVars, quietVars>>

SubscribeBegins ==
    \E c \in Callers, p \in Publishers, trackOk \in BOOLEAN, addOk \in BOOLEAN :
        Subscribe_AddTrack(c, p, trackOk, addOk)
SubscribeLocks == \E c \in Callers : Subscribe_Lock(c)
SubscribeSetsTrack == \E c \in Callers : Subscribe_SetTrack(c)
SubscribeSetsSender == \E c \in Callers : Subscribe_SetSender(c)
SubscribeSetsPublisher == \E c \in Callers : Subscribe_SetPublisher(c)
SubscribeUnlocks == \E c \in Callers : Subscribe_Unlock(c)
SubscribeReturns == \E c \in Callers : Subscribe_AddSubscriber(c)
UnsubscribeBegins == \E c \in Callers : Unsubscribe_CheckState(c)
UnsubscribeRemovesTrack == \E c \in Callers : Unsubscribe_RemoveTrack(c)
UnsubscribeReturns == \E c \in Callers : Unsubscribe_RemoveSubscriber(c)

NextConc ==
    \/ SubscribeBegins
    \/ SubscribeLocks
    \/ SubscribeSetsTrack
    \/ SubscribeSetsSender
    \/ SubscribeSetsPublisher
    \/ SubscribeUnlocks
    \/ SubscribeReturns
    \/ UnsubscribeBegins
    \/ UnsubscribeRemovesTrack
    \/ UnsubscribeReturns
    \/ ClosePeerConnection

SpecConc == Init /\ [][NextConc]_vars

\* The whole core. The three parts share only the sink, so each property
\* below is checked under the specification of the part it is about.
Next == NextPub \/ NextPeer \/ NextSignal \/ NextQuiet \/ NextSub \/ NextConc

Spec == Init /\ [][Next]_vars

\* ======================================================== properties

\* Number of events of the given type about the given relay track in the sink.
Count(type, track) ==
    Cardinality({i \in DOMAIN sink : sink[i].type = type /\ sink[i].Track = track})

\* Position of the first such event in the sink (0 when there is none).
FirstAt(type, track) ==
    LET at == {i \in DOMAIN sink : sink[i].type = type /\ sink[i].Track = track}
    IN IF at = {} THEN 0 ELSE CHOOSE i \in at : \A j \in at : i <= j

\* The callback for t created the relay track and started the loop.
Started(t) == trackPc[t] \in {"reading", "writing", "terminated"}

\* The forwarding loop of t has performed a read.
HasRead(t) == readRes[t] # "none"

LastWriteRes(t) ==
    IF writeLog[t] = <<>> THEN "none" ELSE writeLog[t][Len(writeLog[t])].res

\* C1 as stated: every invocation of onRtpTrackReceived, whatever the outcome
\* of the relay-track creation, has sent exactly one NewTrackPublished.
C1_AsStated ==
    \A t \in Tracks :
        trackPc[t] # "unpublished" => Count("NewTrackPublished", Relay(t)) = 1

\* C1 amended: an invocation whose relay-track creation succeeds sends exactly
\* one NewTrackPublished, before the loop's first read (and so before its
\* terminal event); an invocation whose creation fails sends none and starts
\* no loop.
C1_Published ==
    \A t \in Tracks :
        /\ Count("NewTrackPublished", Relay(t)) = (IF Started(t) THEN 1 ELSE 0)
        /\ HasRead(t) => Count("NewTrackPublished", Relay(t)) = 1
        /\ Count("PublishedTrackFailed", Relay(t)) > 0 =>
              /\ FirstAt("NewTrackPublished", Relay(t)) > 0
              /\ FirstAt("NewTrackPublished", Relay(t))
                    < FirstAt("PublishedTrackFailed", Relay(t))
        /\ trackPc[t] = "createFailed" =>
              ~HasRead(t) /\ writeLog[t] = <<>>

C1_Witness ==
    \E t, u \in Tracks :
        /\ HasRead(t) /\ readLog[t] # <<>>
        /\ Count("NewTrackPublished", Relay(t)) = 1
        /\ trackPc[u] = "createFailed"
        /\ Count("NewTrackPublished", Relay(u)) = 0

\* C2: a forwarding loop has sent its PublishedTrackFailed exactly when it has
\* terminated (none while it runs, one once it has ended), it ends only on a
\* read failure (EOF or error) or a write error other than closed pipe, and a
\* terminated loop reads, writes and sends nothing more.
C2_TerminalOnce ==
    \A t \in Tracks :
        /\ Count("PublishedTrackFailed", Relay(t))
              = (IF trackPc[t] = "terminated" THEN 1 ELSE 0)
        /\ trackPc[t] = "terminated" =>
              (readRes[t] \in {"EOF", "err"} \/ LastWriteRes(t) = "err")

C2_NothingAfter ==
    \A t \in Tracks :
        trackPc[t] = "terminated" =>
            /\ trackPc'[t] = "terminated"
            /\ readLog'[t] = readLog[t]
            /\ readRes'[t] = readRes[t]
            /\ writeLog'[t] = writeLog[t]
            /\ written'[Relay(t)] = written[Relay(t)]
            /\ Count("PublishedTrackFailed", Relay(t))' = 1

C2_OneTerminalEvent == []C2_TerminalOnce /\ [][C2_NothingAfter]_vars

C2_Witness ==
    \E t, u \in Tracks :
        /\ trackPc[t] = "terminated" /\ readRes[t] = "EOF"
        /\ trackPc[u] = "terminated" /\ LastWriteRes(u) = "err"
        /\ Count("PublishedTrackFailed", Relay(t)) = 1
        /\ Count("PublishedTrackFailed", Relay(u)) = 1

\* C3: after a write that failed with closed pipe the loop is still
\* forwarding and at its next read, however many such failures came before;
\* a write that failed otherwise is the loop's last write and leaves it
\* terminated; a failed read leaves it terminated.
C3_SurvivesClosedPipe ==
    \A t \in Tracks :
        LET n == Len(writeLog[t]) IN
        /\ \A i \in 1..(n - 1) : writeLog[t][i].res # "err"
        /\ LastWriteRes(t) = "err" => trackPc[t] = "terminated"
        /\ (LastWriteRes(t) = "closedPipe" /\ Len(readLog[t]) = n /\ readRes[t] = "ok")
              => (trackPc[t] = "reading"
                  /\ Count("PublishedTrackFailed", Relay(t)) = 0)
        /\ readRes[t] \in {"EOF", "err"} => trackPc[t] = "terminated"
        /\ (Started(t) /\ readRes[t] \in {"none", "ok"} /\ LastWriteRes(t) # "err")
              => trackPc[t] # "terminated"

C3_Witness ==
    \E t \in Tracks :
        /\ Len(writeLog[t]) >= 2
        /\ \A i \in DOMAIN writeLog[t] : writeLog[t][i].res = "closedPipe"
        /\ trackPc[t] = "reading"

\* C4: after two "data channel ready" notifications the first channel is the
\* one bound, it is open and has the handlers; every later channel is closed
\* and has no handler.
C4_SecondChannelClosed ==
    Len(dcAnnounced) >= 2 =>
        /\ dataChannel = dcAnnounced[1]
        /\ dcAnnounced[1] \in dcHandlers
        /\ dcAnnounced[1] \notin dcClosed
        /\ \A i \in 2..Len(dcAnnounced) :
              dcAnnounced[i] \in dcClosed /\ dcAnnounced[i] \notin dcHandlers

\* The latest completed call on the subscriber and the one before it.
LastOp == opLog[Len(opLog)]
PrevOp == opLog[Len(opLog) - 1]

\* This step is a call of the given operation returning.
Returns(op) == Len(opLog') = Len(opLog) + 1 /\ opLog'[Len(opLog')].op = op

\* C5: an Unsubscribe that directly follows an Unsubscribe (of a subscriber
\* that had a sender) changes nothing:
\* no further RemoveTrack on the home connection, no change of the
\* subscriber, of the connection's senders or of any collection.
C5_SecondUnsubscribeNoOp ==
    [][(/\ Returns("Unsubscribe")
        /\ Len(opLog) >= 1 /\ LastOp.op = "Unsubscribe" /\ LastOp.sender # Nil)
         => UNCHANGED <<sTrack, sSender, sPublisher, pcSenders, pcState,
                        subscribers, callSubscribers, removeCalls>>]_vars

\* C6: once Unsubscribe (from a publisher P1) and then a successful Subscribe
\* to another publisher P2 have returned, the subscriber refers to P2 and to
\* the new track and sender, it is in P2's live set and not in P1's, and the
\* sender made for P1 is no longer registered on the home connection.
C6_ReboundToNewPublisher ==
    (/\ Len(opLog) >= 2
     /\ PrevOp.op = "Unsubscribe" /\ PrevOp.publisher # Nil /\ PrevOp.sender # Nil
     /\ LastOp.op = "Subscribe" /\ LastOp.addOk
     /\ LastOp.publisher # PrevOp.publisher)
    => /\ sPublisher = LastOp.publisher
       /\ sSender = LastOp.sender
       /\ sTrack = SubTrack(LastOp.sender)
       /\ S \in subscribers[LastOp.publisher]
       /\ S \notin subscribers[PrevOp.publisher]
       /\ PrevOp.sender \notin pcSenders

\* C7: while the latest completed call is an Unsubscribe (it returned and no
\* Subscribe followed), the subscriber is in no live set of the publisher it
\* was subscribed to and refers to no publisher.
C7_NoStaleReference ==
    (/\ Len(opLog) >= 1
     /\ LastOp.op = "Unsubscribe" /\ LastOp.publisher # Nil /\ LastOp.sender # Nil)
    => /\ S \notin subscribers[LastOp.publisher]
       /\ sPublisher = Nil

\* C8: a Subscribe whose track creation or sender registration fails leaves
\* the subscriber's triple and the publisher's live set as they were and
\* sends no event.
C8_FailedSubscribeUnattached ==
    [][(Returns("Subscribe") /\ ~opLog'[Len(opLog')].addOk)
         => UNCHANGED <<sTrack, sSender, sPublisher, subscribers, sink>>]_vars

\* C9: while a subscriber is attached to publisher t by a successful
\* Subscribe and t's loop is between two iterations, the payloads on the
\* track of the subscriber's sender are the payloads the loop has written
\* since that Subscribe, in order.
C9_PacketsReachSubscriber ==
    (/\ Len(opLog) >= 1
     /\ LastOp.op = "Subscribe" /\ LastOp.addOk
     /\ sSender \in pcSenders /\ pcState # "closed"
     /\ trackPc[LastOp.publisher] = "reading")
    => LET relay == written[Relay(LastOp.publisher)]
       IN written[sTrack] = SubSeq(relay, LastOp.mark + 1, Len(relay))

\* The events a step appended to the sink.
Sent == SubSeq(sink', Len(sink) + 1, Len(sink'))

\* C10: a connection-state callback appends to the sink one JoinedTheCall
\* when the state is Connected, one LeftTheCall with the user-hangup reason
\* when it is Failed, Disconnected or Closed, and nothing for any other state.
C10_ConnectionEvents ==
    [][cbCount' = cbCount + 1 =>
         /\ SubSeq(sink', 1, Len(sink)) = sink
         /\ Sent = (CASE cbState' = "connected" -> <<[type |-> "JoinedTheCall"]>>
                      [] cbState' \in {"failed", "disconnected", "closed"} ->
                           <<[type |-> "LeftTheCall", Reason |-> "user_hangup"]>>
                      [] OTHER -> <<>>)]_vars

C10_Witness ==
    /\ cbCount = 3
    /\ cbState = "disconnected"
    /\ sink = <<[type |-> "JoinedTheCall"], [type |-> "JoinedTheCall"],
                [type |-> "LeftTheCall", Reason |-> "user_hangup"]>>

\* Number of RenegotiationRequired events carrying the given offer.
Renegotiations(offer) ==
    Cardinality({k \in DOMAIN sink :
                    sink[k].type = "RenegotiationRequired" /\ sink[k].Offer = offer})

NegotiationCalls == {i \in DOMAIN calls : calls[i].kind = "negotiation"}

\* C11: a negotiation-needed callback has sent one RenegotiationRequired
\* with its offer exactly when it has returned with both CreateOffer and
\* SetLocalDescription successful, and none otherwise; the offer of an event
\* in the sink was set as local description before; a callback one of whose
\* steps failed has returned, and its offer was never set as local
\* description.
C11_RenegotiationIffBothSucceed ==
    \A i \in NegotiationCalls :
        /\ Renegotiations(i)
              = (IF calls[i].pc = "done" /\ calls[i].res = "ok" THEN 1 ELSE 0)
        /\ (Renegotiations(i) > 0 \/ calls[i].pc = "send") => i \in described
        /\ calls[i].res \in {"offerFailed", "setFailed"} =>
              /\ calls[i].pc = "done"
              /\ i \notin described
              /\ localDescription # i
        /\ i \in described => calls[i].res = "ok"

C11_Witness ==
    \E i, j \in NegotiationCalls :
        /\ calls[i].res = "ok" /\ calls[i].pc = "done" /\ Renegotiations(i) = 1
        /\ calls[j].res = "setFailed" /\ Renegotiations(j) = 0

\* C12: the body of an ICE-candidate callback appends exactly one event to
\* the sink: ICEGatheringComplete when its candidate is nil, NewICECandidate
\* with its candidate otherwise.
C12_OneEventPerCandidate ==
    [][\A i \in DOMAIN calls :
         (calls[i].kind = "ice" /\ calls[i].pc = "fired" /\ calls'[i].pc = "done")
         => /\ SubSeq(sink', 1, Len(sink)) = sink
            /\ Sent = (IF calls[i].arg = "nil"
                         THEN <<[type |-> "ICEGatheringComplete"]>>
                         ELSE <<[type |-> "NewICECandidate",
                                 Candidate |-> calls[i].arg]>>)]_vars

C12_Witness ==
    \E i, j \in DOMAIN calls :
        /\ calls[i].kind = "ice" /\ calls[i].arg = "nil" /\ calls[i].at > 0
        /\ sink[calls[i].at] = [type |-> "ICEGatheringComplete"]
        /\ calls[j].kind = "ice" /\ calls[j].arg = "cand1" /\ calls[j].at > 0
        /\ sink[calls[j].at] = [type |-> "NewICECandidate", Candidate |-> "cand1"]

\* C13: the events of two callbacks of different kinds are in the sink in
\* the order in which the engine invoked the callbacks.
C13_EventsInFiringOrder ==
    \A i, j \in DOMAIN calls :
        (i < j /\ calls[i].kind # calls[j].kind /\ calls[i].at > 0 /\ calls[j].at > 0)
        => calls[i].at < calls[j].at

\* C14: once p.dataChannel is set no step changes it; it is the first
\* channel announced, and the handlers are registered on that channel and on
\* no other.
C14_BoundChannel ==
    /\ dcHandlers = (IF dataChannel = Nil THEN {} ELSE {dataChannel})
    /\ dataChannel # Nil => dataChannel = dcAnnounced[1]
    /\ dcAnnounced # <<>> => dataChannel # Nil

C14_BoundOnce ==
    []C14_BoundChannel /\ [][dataChannel # Nil => dataChannel' = dataChannel]_vars

C14_Witness ==
    /\ Len(dcAnnounced) >= 2
    /\ dataChannel = dcAnnounced[1]
    /\ dcHandlers = {dcAnnounced[1]}

\* C16: a notification delivered to a handler of the bound channel appends
\* DataChannelAvailable when it is an open, one DataChannelMessage with the
\* frame's text when it is a text frame, and nothing when it is a binary
\* frame, an error or a close.
C16_DataChannelEvents ==
    [][dcEvents' = dcEvents + 1 =>
         /\ dcLast'.channel = dataChannel
         /\ SubSeq(sink', 1, Len(sink)) = sink
         /\ Sent = (CASE dcLast'.kind = "open" -> <<[type |-> "DataChannelAvailable"]>>
                      [] dcLast'.kind = "message" /\ dcLast'.isString ->
                           <<[type |-> "DataChannelMessage", Message |-> dcLast'.data]>>
                      [] OTHER -> <<>>)]_vars

C16_Witness ==
    /\ dcEvents = 2
    /\ dcLast.kind = "message" /\ ~dcLast.isString
    /\ sink = <<[type |-> "DataChannelMessage", Message |-> "bye"]>>

\* C15: an ICE-connection-state, ICE-gathering-state or signaling-state
\* callback, whatever its state, sends nothing to the sink and changes
\* nothing of the Peer.
C15_StateCallbacksSilent ==
    [][quietCount' = quietCount + 1 =>
         UNCHANGED <<sink, dcVars, connVars, sigVars, pubVars>>]_vars

C15_Witness ==
    /\ quietCount = 2
    /\ quietLast = [callback |-> "iceConnection", state |-> "failed"]
    /\ sink = <<[type |-> "JoinedTheCall"]>>

\* The bytes of the write calls in a log of writes.
RECURSIVE DataOf(_)
DataOf(w) == IF w = <<>> THEN <<>> ELSE <<Head(w).data>> \o DataOf(Tail(w))

\* C18: for every published track, the i-th write to the relay track carries
\* the bytes of the i-th successful read; every successful read has its write
\* before the next read (one write is outstanding exactly while the loop is
\* between a read and its write); and the relay track has received exactly
\* the bytes of the writes that succeeded, in order.
C18_WritesFollowReads ==
    \A t \in Tracks :
        /\ Len(writeLog[t]) =
             IF trackPc[t] = "writing" THEN Len(readLog[t]) - 1 ELSE Len(readLog[t])
        /\ DataOf(writeLog[t]) = SubSeq(readLog[t], 1, Len(writeLog[t]))
        /\ written[Relay(t)] =
             DataOf(SelectSeq(writeLog[t], LAMBDA e : e.res = "ok"))

C18_Witness ==
    \E t \in Tracks :
        /\ trackPc[t] = "reading"
        /\ readLog[t] = <<"p", "q">>
        /\ DataOf(writeLog[t]) = <<"p", "q">>
        /\ written[Relay(t)] = <<"p", "q">>

\* C20: whenever every Subscribe so far has succeeded, after any number of
\* completed Subscribe and Unsubscribe calls the home connection holds at
\* most one sender of the subscriber, the one stored in its triple, and the
\* subscriber is in the live set of no publisher but the one its triple
\* refers to.
C20_OneSenderOnePublisher ==
    (\A i \in 1..Len(opLog) : opLog[i].op = "Subscribe" => opLog[i].addOk)
    => /\ Cardinality(pcSenders) <= 1
       /\ pcSenders \subseteq {sSender}
       /\ \A p \in Publishers : S \in subscribers[p] => p = sPublisher

\* The subscriber's (track, sender, publisher).
Triple == <<sTrack, sSender, sPublisher>>

\* C17: the triple changes only in steps of the caller that holds the mutex,
\* and whenever the mutex is free the triple is the initial one or the track,
\* sender and publisher of one and the same Subscribe call, also while other
\* Subscribe calls are under way.
C17_TripleOfOneCall ==
    mutex = "free" =>
        \/ Triple = <<Nil, Nil, Nil>>
        \/ \E n \in 1..Len(subCalls) :
               Triple = <<subCalls[n].track, subCalls[n].sender, subCalls[n].publisher>>

C17_TripleUnderLock ==
    []C17_TripleOfOneCall
    /\ [][Triple' # Triple => (mutex \in Callers /\ mutex' = mutex)]_vars

C17_Witness ==
    /\ mutex = "free"
    /\ Len(subCalls) = 2
    /\ subCalls[1].publisher # subCalls[2].publisher
    /\ subCalls[1].sender # Nil /\ subCalls[2].sender # Nil
    /\ \A c \in Callers : th[c].pc = "addSubscriber"
    /\ sSender = subCalls[1].sender

\* The completed Unsubscribe calls.
Unsubscribed == {i \in 1..Len(opLog) : opLog[i].op = "Unsubscribe"}

\* C19: RemoveTrack has been called once for each Unsubscribe that observed
\* a state other than Closed and never for one that observed Closed; an
\* Unsubscribe observes Closed only on a closed connection; and every
\* Unsubscribe that returned, also one whose RemoveTrack failed, has removed
\* the subscriber from the call's collection.
C19_RemovalAttemptedIffOpen ==
    /\ Len(removeCalls) =
         Cardinality({i \in Unsubscribed : ~opLog[i].sawClosed})
         + Cardinality({c \in Callers : At(c, "removeSubscriber") /\ ~th[c].sawClosed})
    /\ \A i \in Unsubscribed :
         /\ opLog[i].sawClosed => pcState = "closed"
         /\ opLog[i].sawClosed <=> opLog[i].removal = "none"
         /\ S \notin callSubscribers

C19_Witness ==
    /\ pcState = "closed"
    /\ Len(opLog) = 2
    /\ opLog[1].op = "Subscribe" /\ opLog[1].addOk
    /\ opLog[2].op = "Unsubscribe" /\ ~opLog[2].sawClosed
    /\ opLog[2].sender = opLog[1].sender /\ opLog[2].removal = "err"
    /\ S \notin callSubscribers

====
